---- MODULE Spec2Model ----
(***************************************************************************)
(* A model of expense_tracker.py: the in-memory ledger (the globals         *)
(* `expenses` and `expense_counter`), the persisted JSON file, and the menu *)
(* loop of main() with one action per menu handler.                         *)
(*                                                                          *)
(* Text is modelled as a sequence of one-character strings, so that the     *)
(* conversions the program relies on (str.strip, int(), float(), str.title, *)
(* strptime, json.dump / json.load) are computed and not assumed.           *)
(***************************************************************************)
EXTENDS Integers, Sequences, FiniteSets, TLC

VARIABLES expenses, expense_counter, file, pc, last, shown, used, adds

vars == <<expenses, expense_counter, file, pc, last, shown, used, adds>>

----------------------------------------------------------------------------
(* Characters and the str methods the program calls.                       *)

Digits == {"0", "1", "2", "3", "4", "5", "6", "7", "8", "9"}

\* A character for which str.isdigit() is True and int() raises ValueError.
SuperscriptTwo == "^2"

DigitVal(c) ==
    CASE c = "0" -> 0 [] c = "1" -> 1 [] c = "2" -> 2 [] c = "3" -> 3
      [] c = "4" -> 4 [] c = "5" -> 5 [] c = "6" -> 6 [] c = "7" -> 7
      [] c = "8" -> 8 [] c = "9" -> 9

DigitChar(n) ==
    CASE n = 0 -> "0" [] n = 1 -> "1" [] n = 2 -> "2" [] n = 3 -> "3"
      [] n = 4 -> "4" [] n = 5 -> "5" [] n = 6 -> "6" [] n = 7 -> "7"
      [] n = 8 -> "8" [] n = 9 -> "9"

\* Code points of the characters the model uses (str comparison order).
Ord(c) ==
    CASE c = " " -> 32 [] c = "\"" -> 34 [] c = "+" -> 43 [] c = "-" -> 45
      [] c = "." -> 46 [] c \in Digits -> 48 + DigitVal(c)
      [] c = "F" -> 70 [] c = "O" -> 79 [] c = "D" -> 68 [] c = "Y" -> 89
      [] c = "E" -> 69 [] c = "S" -> 83 [] c = "N" -> 78 [] c = "A" -> 65
      [] c = "I" -> 73 [] c = "\\" -> 92
      [] c = "f" -> 102 [] c = "o" -> 111 [] c = "d" -> 100 [] c = "y" -> 121
      [] c = "e" -> 101 [] c = "s" -> 115 [] c = "n" -> 110 [] c = "a" -> 97
      [] c = "i" -> 105 [] c = "x" -> 120 [] c = "b" -> 98 [] c = "W" -> 87
      [] c = SuperscriptTwo -> 178

UpperOf == [c \in {"f", "o", "d", "y", "e", "s", "n", "a", "i"} |->
    CASE c = "f" -> "F" [] c = "o" -> "O" [] c = "d" -> "D" [] c = "y" -> "Y"
      [] c = "e" -> "E" [] c = "s" -> "S" [] c = "n" -> "N" [] c = "a" -> "A"
      [] c = "i" -> "I"]

IsLower(c) == c \in DOMAIN UpperOf \/ c \in {"x", "b"}
IsUpper(c) == \E l \in DOMAIN UpperOf : UpperOf[l] = c

upper(c) == IF c \in DOMAIN UpperOf THEN UpperOf[c] ELSE c
lower(c) == IF IsUpper(c) THEN CHOOSE l \in DOMAIN UpperOf : UpperOf[l] = c ELSE c

IsCased(c) == IsLower(c) \/ IsUpper(c)

\* str.lower()
Lower(s) == [i \in 1..Len(s) |-> lower(s[i])]

\* str.title(): a cased character is upper-cased when it follows an uncased
\* one (or starts the text) and lower-cased otherwise.
title(s) ==
    [i \in 1..Len(s) |->
        IF i = 1 \/ ~IsCased(s[i - 1]) THEN upper(s[i]) ELSE lower(s[i])]

RECURSIVE LStrip(_)
LStrip(s) == IF s # <<>> /\ Head(s) = " " THEN LStrip(Tail(s)) ELSE s

RECURSIVE RStrip(_)
RStrip(s) ==
    IF s # <<>> /\ s[Len(s)] = " " THEN RStrip(SubSeq(s, 1, Len(s) - 1)) ELSE s

\* str.strip()
strip(s) == RStrip(LStrip(s))

\* str.isdigit()
isdigit(s) == s # <<>> /\ \A i \in 1..Len(s) : s[i] \in Digits \cup {SuperscriptTwo}

AllDigits(s) == s # <<>> /\ \A i \in 1..Len(s) : s[i] \in Digits

RECURSIVE DigitsValue(_)
DigitsValue(s) ==
    IF s = <<>> THEN 0
    ELSE 10 * DigitsValue(SubSeq(s, 1, Len(s) - 1)) + DigitVal(s[Len(s)])

IntOfStripped(s) ==
    IF s # <<>> /\ Head(s) = "-" /\ AllDigits(Tail(s))
    THEN [ok |-> TRUE, v |-> -DigitsValue(Tail(s))]
    ELSE IF s # <<>> /\ Head(s) = "+" /\ AllDigits(Tail(s))
    THEN [ok |-> TRUE, v |-> DigitsValue(Tail(s))]
    ELSE IF AllDigits(s) THEN [ok |-> TRUE, v |-> DigitsValue(s)]
    ELSE [ok |-> FALSE, v |-> 0]

\* int(text): surrounding whitespace ignored, an optional sign, decimal digits;
\* anything else raises ValueError (ok = FALSE).
int(text) == IntOfStripped(strip(text))

RECURSIVE NatStr(_)
NatStr(n) == IF n < 10 THEN <<DigitChar(n)>> ELSE NatStr(n \div 10) \o <<DigitChar(n % 10)>>

\* str(n) / repr(n) of an int, as json.dump writes keys and the counter.
str(n) == IF n < 0 THEN <<"-">> \o NatStr(-n) ELSE NatStr(n)

\* s < t for str (lexicographic by code point).
RECURSIVE StrLess(_, _)
StrLess(s, t) ==
    IF t = <<>> THEN FALSE
    ELSE IF s = <<>> THEN TRUE
    ELSE IF Head(s) # Head(t) THEN Ord(Head(s)) < Ord(Head(t))
    ELSE StrLess(Tail(s), Tail(t))

----------------------------------------------------------------------------
(* float: a value is finite (n hundredths), NaN, or an infinity (n = sign). *)
(* The amounts the model enters are dyadic (x.0, x.5, x.25), on which       *)
(* double addition is exact, so sums of hundredths are the program's sums.  *)

Fin(n) == [k |-> "fin", n |-> n]
NaN == [k |-> "nan", n |-> 0]
Inf(sign) == [k |-> "inf", n |-> sign]

NotAFloat == [ok |-> FALSE, v |-> Fin(0)]

\* Digits with an optional fraction of up to two digits (the grammar of the
\* decimal inputs the model enumerates).
Decimal(whole, frac, sign) ==
    IF /\ Len(whole) + Len(frac) >= 1
       /\ \A i \in 1..Len(whole) : whole[i] \in Digits
       /\ \A i \in 1..Len(frac) : frac[i] \in Digits
       /\ Len(frac) <= 2
    THEN [ok |-> TRUE,
          v |-> Fin(sign * (100 * DigitsValue(whole)
                            + (IF Len(frac) = 1 THEN 10 ELSE 1) * DigitsValue(frac)))]
    ELSE NotAFloat

DotAt(body) ==
    IF \E i \in 1..Len(body) : body[i] = "."
    THEN CHOOSE i \in 1..Len(body) : body[i] = "."
    ELSE Len(body) + 1

FloatOfBody(body, sign) ==
    IF Lower(body) = <<"n", "a", "n">> THEN [ok |-> TRUE, v |-> NaN]
    ELSE IF Lower(body) \in {<<"i", "n", "f">>, <<"i", "n", "f", "i", "n", "i", "t", "y">>}
    THEN [ok |-> TRUE, v |-> Inf(sign)]
    ELSE IF Cardinality({i \in 1..Len(body) : body[i] = "."}) > 1 THEN NotAFloat
    ELSE Decimal(SubSeq(body, 1, DotAt(body) - 1),
                 SubSeq(body, DotAt(body) + 1, Len(body)), sign)

FloatOfStripped(s) ==
    IF s # <<>> /\ Head(s) = "-" THEN FloatOfBody(Tail(s), -1)
    ELSE IF s # <<>> /\ Head(s) = "+" THEN FloatOfBody(Tail(s), 1)
    ELSE FloatOfBody(s, 1)

\* float(text): whitespace ignored, an optional sign, then "nan", "inf",
\* "infinity" (any case) or a decimal; anything else raises ValueError.
float(text) == FloatOfStripped(strip(text))

\* a <= 0 on floats: every comparison with NaN is False.
FloatLeqZero(a) == (a.k = "fin" /\ a.n <= 0) \/ (a.k = "inf" /\ a.n < 0)

\* a > 0 on floats.
FloatPositive(a) == (a.k = "fin" /\ a.n > 0) \/ (a.k = "inf" /\ a.n > 0)

\* a + b on floats.
FloatAdd(a, b) ==
    IF a.k = "nan" \/ b.k = "nan" THEN NaN
    ELSE IF a.k = "inf" /\ b.k = "inf" THEN (IF a.n = b.n THEN a ELSE NaN)
    ELSE IF a.k = "inf" THEN a
    ELSE IF b.k = "inf" THEN b
    ELSE Fin(a.n + b.n)

\* The body of validate_amount once float() has returned or raised.
CheckedAmount(r) ==
    IF ~r.ok THEN [ok |-> FALSE, amount |-> Fin(0)]
    ELSE IF FloatLeqZero(r.v) THEN [ok |-> FALSE, amount |-> Fin(0)]
    ELSE [ok |-> TRUE, amount |-> r.v]

validate_amount(amount_string) == CheckedAmount(float(amount_string))

----------------------------------------------------------------------------
(* datetime.strptime(text, '%Y-%m-%d') and the strftime calls.              *)

IsLeap(y) == (y % 4 = 0 /\ y % 100 # 0) \/ y % 400 = 0

DaysInMonth(y, m) ==
    IF m = 2 THEN (IF IsLeap(y) THEN 29 ELSE 28)
    ELSE IF m \in {4, 6, 9, 11} THEN 30 ELSE 31

\* %m matches 1[0-2] | 0[1-9] | [1-9]
MonthField(t) ==
    \/ Len(t) = 1 /\ t[1] \in Digits \ {"0"}
    \/ Len(t) = 2 /\ t[1] = "0" /\ t[2] \in Digits \ {"0"}
    \/ Len(t) = 2 /\ t[1] = "1" /\ t[2] \in {"0", "1", "2"}

\* %d matches 3[0-1] | [1-2]\d | 0[1-9] | [1-9] | " "[1-9]
DayField(t) ==
    \/ Len(t) = 1 /\ t[1] \in Digits \ {"0"}
    \/ Len(t) = 2 /\ t[1] \in {"0", " "} /\ t[2] \in Digits \ {"0"}
    \/ Len(t) = 2 /\ t[1] \in {"1", "2"} /\ t[2] \in Digits
    \/ Len(t) = 2 /\ t[1] = "3" /\ t[2] \in {"0", "1"}

NoDate == [ok |-> FALSE, y |-> 0, m |-> 0, d |-> 0]

\* The calendar check of the datetime constructor.
CalendarDate(y, m, d) ==
    IF y < 1 \/ d > DaysInMonth(y, m) THEN NoDate
    ELSE [ok |-> TRUE, y |-> y, m |-> m, d |-> d]

DateFields(y, mf, df) ==
    IF ~MonthField(mf) \/ ~DayField(df) THEN NoDate
    ELSE CalendarDate(y, DigitsValue(mf), DigitsValue(strip(df)))

DashAt(rest) == CHOOSE i \in 1..Len(rest) : rest[i] = "-"

MonthAndDay(y, rest) ==
    IF Cardinality({i \in 1..Len(rest) : rest[i] = "-"}) # 1 THEN NoDate
    ELSE DateFields(y, SubSeq(rest, 1, DashAt(rest) - 1),
                    SubSeq(rest, DashAt(rest) + 1, Len(rest)))

\* strptime: four year digits, '-', a month field, '-', a day field, nothing
\* left over; a ValueError otherwise (ok = FALSE).
strptime(text) ==
    IF Len(text) < 5 THEN NoDate
    ELSE IF ~(\A i \in 1..4 : text[i] \in Digits) \/ text[5] # "-" THEN NoDate
    ELSE MonthAndDay(DigitsValue(SubSeq(text, 1, 4)), SubSeq(text, 6, Len(text)))

validate_date(date_string) == strptime(date_string).ok

ZeroFill(t, w) == [i \in 1..(w - Len(t)) |-> "0"] \o t

\* Zero-padded decimal of width w (strftime's %Y, %m, %d, %U fields).
Pad(n, w) == ZeroFill(NatStr(n), w)

----------------------------------------------------------------------------
(* json.dump / json.load on the tokens of the persisted object.            *)

\* repr of a non-negative finite float given in hundredths.
FiniteRepr(mag) ==
    NatStr(mag \div 100) \o <<".">>
    \o (IF mag % 10 = 0 THEN <<DigitChar((mag % 100) \div 10)>>
        ELSE <<DigitChar((mag % 100) \div 10), DigitChar(mag % 10)>>)

\* repr(float) as json.dump writes it (NaN and Infinity are allowed).
FloatRepr(a) ==
    IF a.k = "nan" THEN <<"N", "a", "N">>
    ELSE IF a.k = "inf"
    THEN (IF a.n < 0 THEN <<"-">> ELSE <<>>) \o <<"I", "n", "f", "i", "n", "i", "t", "y">>
    ELSE IF a.n < 0 THEN <<"-">> \o FiniteRepr(-a.n)
    ELSE FiniteRepr(a.n)

NotANumber == [ok |-> FALSE, isint |-> FALSE, f |-> Fin(0), i |-> 0]

JsonFloat(r, sign) ==
    IF r.ok /\ r.v.k = "fin"
    THEN [ok |-> TRUE, isint |-> FALSE, f |-> Fin(sign * r.v.n), i |-> 0]
    ELSE NotANumber

JsonNumberBody(body, sign) ==
    IF body = <<"I", "n", "f", "i", "n", "i", "t", "y">>
    THEN [ok |-> TRUE, isint |-> FALSE, f |-> Inf(sign), i |-> 0]
    ELSE IF AllDigits(body) /\ (Len(body) = 1 \/ Head(body) # "0")
    THEN [ok |-> TRUE, isint |-> TRUE, f |-> Fin(0), i |-> sign * DigitsValue(body)]
    ELSE IF body # <<>> /\ Head(body) \in Digits /\ body[Len(body)] \in Digits
    THEN JsonFloat(float(body), sign)
    ELSE NotANumber

\* A JSON number or constant token read back by json.load: a float when it
\* has a fraction or is NaN / Infinity, an int otherwise.
JsonNumber(t) ==
    IF t = <<"N", "a", "N">> THEN [ok |-> TRUE, isint |-> FALSE, f |-> NaN, i |-> 0]
    ELSE IF t # <<>> /\ Head(t) = "-" THEN JsonNumberBody(Tail(t), -1)
    ELSE JsonNumberBody(t, 1)

\* The body of a JSON string: '"' and '\' are escaped with a backslash.
RECURSIVE JsonEscape(_)
JsonEscape(s) ==
    IF s = <<>> THEN <<>>
    ELSE IF Head(s) \in {"\"", "\\"} THEN <<"\\", Head(s)>> \o JsonEscape(Tail(s))
    ELSE <<Head(s)>> \o JsonEscape(Tail(s))

JsonString(s) == <<"\"">> \o JsonEscape(s) \o <<"\"">>

RECURSIVE JsonUnescape(_)
JsonUnescape(s) ==
    IF s = <<>> THEN <<>>
    ELSE IF Head(s) = "\\" /\ Len(s) >= 2 THEN <<s[2]>> \o JsonUnescape(Tail(Tail(s)))
    ELSE <<Head(s)>> \o JsonUnescape(Tail(s))

\* The str a JSON string token denotes.
JsonStringValue(t) == JsonUnescape(SubSeq(t, 2, Len(t) - 1))

----------------------------------------------------------------------------
(* A Python dict: a sequence of [key, value] in insertion order, keys       *)
(* distinct.                                                                *)

Keys(d) == {d[i].key : i \in 1..Len(d)}

DictGet(d, k) == d[CHOOSE i \in 1..Len(d) : d[i].key = k].value

\* d.get(k, default)
DictGetOr(d, k, default) == IF k \in Keys(d) THEN DictGet(d, k) ELSE default

\* d[k] = v: replaces the value in place when k is present, appends otherwise.
DictSet(d, k, v) ==
    IF k \in Keys(d)
    THEN [i \in 1..Len(d) |-> IF d[i].key = k THEN [key |-> k, value |-> v] ELSE d[i]]
    ELSE Append(d, [key |-> k, value |-> v])

\* del d[k]
DictDel(d, k) == SelectSeq(d, LAMBDA e : e.key # k)

\* Where e goes in a list sorted by date, latest first: after the items
\* whose date is not earlier than its own.
InsertByDateDesc(sorted, e) ==
    SelectSeq(sorted, LAMBDA x : ~StrLess(x.value.date, e.value.date))
    \o <<e>>
    \o SelectSeq(sorted, LAMBDA x : StrLess(x.value.date, e.value.date))

\* sorted(items, key=lambda x: x[1]['date'], reverse=True): stable, so items
\* with equal dates keep the order they have in `items`.
RECURSIVE SortedByDateDesc(_)
SortedByDateDesc(items) ==
    IF items = <<>> THEN <<>>
    ELSE InsertByDateDesc(SortedByDateDesc(SubSeq(items, 1, Len(items) - 1)),
                          items[Len(items)])

\* sorted(S) for a set of str.
RECURSIVE SortedStrings(_)
SortedStrings(S) ==
    IF S = {} THEN <<>>
    ELSE <<CHOOSE x \in S : \A y \in S \ {x} : StrLess(x, y)>>
         \o SortedStrings(S \ {CHOOSE x \in S : \A y \in S \ {x} : StrLess(x, y)})

ReverseSeq(q) == [i \in 1..Len(q) |-> q[Len(q) + 1 - i]]

----------------------------------------------------------------------------
(* The persisted file EXPENSE_FILE and load_expenses / save_expenses.       *)

\* What is on disk: no file, a file that cannot be opened, text json.load
\* rejects, a JSON document whose top-level value is not an object, or the
\* object {"expenses": {key: record, ...}, "counter": n} with its tokens.
FileOf(kind, exps, counter) == [kind |-> kind, expenses |-> exps, counter |-> counter]

Absent == FileOf("absent", <<>>, <<>>)
Unreadable == FileOf("unreadable", <<>>, <<>>)
Unparsable == FileOf("unparsable", <<>>, <<>>)
NonObject == FileOf("array", <<>>, <<>>)

\* json.dump({'expenses': expenses, 'counter': expense_counter}, file):
\* int keys are written as strings, floats by repr, str values escaped;
\* members keep the dict's order.
json_dump(exps, counter) ==
    FileOf("object",
           [i \in 1..Len(exps) |->
               [key |-> str(exps[i].key),
                value |-> [category |-> JsonString(exps[i].value.category),
                           amount |-> FloatRepr(exps[i].value.amount),
                           date |-> JsonString(exps[i].value.date),
                           description |-> JsonString(exps[i].value.description)]]],
           str(counter))

\* The dict json.load builds from an object file: str keys, decoded values.
json_load(f) ==
    [expenses |->
        [i \in 1..Len(f.expenses) |->
            [key |-> f.expenses[i].key,
             value |-> [category |-> JsonStringValue(f.expenses[i].value.category),
                        amount |-> JsonNumber(f.expenses[i].value.amount).f,
                        date |-> JsonStringValue(f.expenses[i].value.date),
                        description |-> JsonStringValue(f.expenses[i].value.description)]]],
     counter |-> JsonNumber(f.counter).i]

\* {int(k): v for k, v in items}: built by successive insertion.
RECURSIVE IntKeyed(_)
IntKeyed(items) ==
    IF items = <<>> THEN <<>>
    ELSE DictSet(IntKeyed(SubSeq(items, 1, Len(items) - 1)),
                 int(items[Len(items)].key).v, items[Len(items)].value)

\* The outcomes of the file I/O of one save: success, open() raising
\* IOError (the file is left as it was), or the write raising IOError after
\* open(..., 'w') truncated the file (a proper prefix of the document, which
\* json.load rejects).
IoOutcomes == {"ok", "open_fails", "write_fails"}

save_expenses(exps, counter, f, io) ==
    IF io = "ok" THEN [file |-> json_dump(exps, counter), saved |-> "ok"]
    ELSE IF io = "open_fails" THEN [file |-> f, saved |-> "failed"]
    ELSE [file |-> Unparsable, saved |-> "failed"]

Loaded(exps, counter, outcome) ==
    [expenses |-> exps, expense_counter |-> counter, outcome |-> outcome]

\* A load that takes the counter from the number of records read.
LoadedFrom_CountsRecords(data, exps, counter) ==
    IF \E i \in 1..Len(data.expenses) : ~int(data.expenses[i].key).ok
    THEN [expenses |-> exps, expense_counter |-> counter, outcome |-> "ValueError"]
    ELSE [expenses |-> IntKeyed(data.expenses),
          expense_counter |-> Len(data.expenses) + 1, outcome |-> "loaded"]

\* Lines 41-42: the dict comprehension over data['expenses'] and the counter.
LoadedFrom(data, exps, counter) ==
    IF \E i \in 1..Len(data.expenses) : ~int(data.expenses[i].key).ok
    THEN Loaded(exps, counter, "ValueError")
    ELSE Loaded(IntKeyed(data.expenses), data.counter, "loaded")

\* load_expenses(): only json.JSONDecodeError and IOError are caught; the
\* AttributeError of data.get on a non-object and the ValueError of int(k)
\* on a non-integer key propagate out of main().
load_expenses(f, exps, counter) ==
    IF f.kind = "absent" THEN Loaded(exps, counter, "fresh")
    ELSE IF f.kind \in {"unreadable", "unparsable"} THEN Loaded(<<>>, 1, "warning")
    ELSE IF f.kind = "array" THEN Loaded(exps, counter, "AttributeError")
    ELSE LoadedFrom(json_load(f), exps, counter)

----------------------------------------------------------------------------
(* The menu handlers.  A handler is given the lines standard input holds    *)
(* for it, in order; input() on an exhausted script is "EOFError", which    *)
(* the actions use to hand a handler exactly the lines it asks for.         *)
(* Every handler returns its outcome and what it displayed; one that can    *)
(* change the ledger also returns the globals and the file as it leaves     *)
(* them and the outcome of the save it made (or "none").                    *)

Result(exps, counter, f, outcome, saved, rows) ==
    [expenses |-> exps, expense_counter |-> counter, file |-> f,
     outcome |-> outcome, saved |-> saved, shown |-> rows]

\* The result of a handler that only reads the ledger.
Display(outcome, rows) == [outcome |-> outcome, shown |-> rows]

\* The result of a handler that ends with save_expenses(), s being what the
\* save did.
Saved(exps, counter, s, outcome, rows) ==
    Result(exps, counter, s.file, outcome, s.saved, rows)

\* An add that saves before it increments the counter.
StoreExpense_SavesFirst(entry, io, exps, counter, f) ==
    Saved(DictSet(exps, counter, entry), counter + 1,
          save_expenses(DictSet(exps, counter, entry), counter, f, io),
          "stored", <<>>)

\* Lines 141-151: expenses[expense_counter] = entry; expense_counter += 1;
\* save_expenses().
StoreExpense(entry, io, exps, counter, f) ==
    Saved(DictSet(exps, counter, entry), counter + 1,
          save_expenses(DictSet(exps, counter, entry), counter + 1, f, io),
          "stored", <<>>)

\* An add that takes its ID before it validates the date.
AddDated_ConsumesId(inputs, amount, typed, today, io, exps, counter, f) ==
    IF typed # <<>> /\ ~validate_date(typed)
    THEN Result(exps, counter + 1, f, "date_invalid", "none", <<>>)
    ELSE IF Len(inputs) < 4 THEN Result(exps, counter, f, "EOFError", "none", <<>>)
    ELSE StoreExpense([category |-> title(strip(inputs[1])),
                       amount |-> amount,
                       date |-> IF typed = <<>> THEN today ELSE typed,
                       description |-> strip(inputs[4])],
                      io, exps, counter, f)

\* Lines 130-147: the date prompt, the description prompt, the entry.
AddDated(inputs, amount, typed, today, io, exps, counter, f) ==
    IF typed # <<>> /\ ~validate_date(typed)
    THEN Result(exps, counter, f, "date_invalid", "none", <<>>)
    ELSE IF Len(inputs) < 4 THEN Result(exps, counter, f, "EOFError", "none", <<>>)
    ELSE StoreExpense([category |-> title(strip(inputs[1])),
                       amount |-> amount,
                       date |-> IF typed = <<>> THEN today ELSE typed,
                       description |-> strip(inputs[4])],
                      io, exps, counter, f)

\* Lines 125-131: the amount check and the date prompt.
AddValued(inputs, v, today, io, exps, counter, f) ==
    IF ~v.ok THEN Result(exps, counter, f, "amount_invalid", "none", <<>>)
    ELSE IF Len(inputs) < 3 THEN Result(exps, counter, f, "EOFError", "none", <<>>)
    ELSE AddDated(inputs, v.amount, strip(inputs[3]), today, io, exps, counter, f)

add_expense(inputs, today, io, exps, counter, f) ==
    IF Len(inputs) < 1 THEN Result(exps, counter, f, "EOFError", "none", <<>>)
    ELSE IF strip(inputs[1]) = <<>>
    THEN Result(exps, counter, f, "category_empty", "none", <<>>)
    ELSE IF Len(inputs) < 2 THEN Result(exps, counter, f, "EOFError", "none", <<>>)
    ELSE AddValued(inputs, validate_amount(strip(inputs[2])), today, io, exps, counter, f)

\* The rows view_all_expenses() prints, in order (none for an empty ledger).
view_all_expenses(exps) == IF exps = <<>> THEN <<>> ELSE SortedByDateDesc(exps)

\* A delete that hands the freed ID back to the counter.
DeleteConfirmed_ReusesId(exp_id, confirm, io, exps, counter, f, rows) ==
    IF confirm = <<"y", "e", "s">> \/ confirm = <<"y">>
    THEN Saved(DictDel(exps, exp_id), counter - 1,
               save_expenses(DictDel(exps, exp_id), counter - 1, f, io), "deleted", rows)
    ELSE Result(exps, counter, f, "cancelled", "none", rows)

\* A delete that does not look at the confirmation.
DeleteConfirmed_AnyAnswer(exp_id, confirm, io, exps, counter, f, rows) ==
    Saved(DictDel(exps, exp_id), counter,
          save_expenses(DictDel(exps, exp_id), counter, f, io), "deleted", rows)

\* Lines 300-307: the confirmation, del expenses[exp_id], save_expenses().
DeleteConfirmed(exp_id, confirm, io, exps, counter, f, rows) ==
    IF confirm = <<"y", "e", "s">> \/ confirm = <<"y">>
    THEN Saved(DictDel(exps, exp_id), counter,
               save_expenses(DictDel(exps, exp_id), counter, f, io), "deleted", rows)
    ELSE Result(exps, counter, f, "cancelled", "none", rows)

\* Lines 285-300: the ID typed, the lookup, the confirmation prompt.
DeleteById(inputs, exp_id, io, exps, counter, f, rows) ==
    IF ~exp_id.ok THEN Result(exps, counter, f, "not_a_number", "none", rows)
    ELSE IF exp_id.v \notin Keys(exps) THEN Result(exps, counter, f, "not_found", "none", rows)
    ELSE IF Len(inputs) < 2 THEN Result(exps, counter, f, "EOFError", "none", rows)
    ELSE DeleteConfirmed(exp_id.v, Lower(strip(inputs[2])), io, exps, counter, f, rows)

delete_expense(inputs, io, exps, counter, f) ==
    IF exps = <<>> THEN Result(exps, counter, f, "empty", "none", <<>>)
    ELSE IF Len(inputs) < 1 THEN Result(exps, counter, f, "EOFError", "none", <<>>)
    ELSE DeleteById(inputs, int(strip(inputs[1])), io, exps, counter, f,
                    view_all_expenses(exps))

\* sum(expense['amount'] for expense in items), from the int 0.
RECURSIVE SumAmounts(_)
SumAmounts(items) ==
    IF items = <<>> THEN Fin(0)
    ELSE FloatAdd(SumAmounts(SubSeq(items, 1, Len(items) - 1)),
                  items[Len(items)].value.amount)

\* totals[key] += amount on a defaultdict(float).
Accumulate(totals, key, amount) ==
    DictSet(totals, key, FloatAdd(DictGetOr(totals, key, Fin(0)), amount))

\* category_totals, filled in the ledger's order.
RECURSIVE CategoryTotals(_)
CategoryTotals(items) ==
    IF items = <<>> THEN <<>>
    ELSE Accumulate(CategoryTotals(SubSeq(items, 1, Len(items) - 1)),
                    items[Len(items)].value.category, items[Len(items)].value.amount)

\* Lines 217-232: the rows of one category, latest first, and their total.
Filtered(filtered) ==
    IF filtered = <<>> THEN Display("none_found", <<>>)
    ELSE Display("listed", SortedByDateDesc(filtered) \o <<[total |-> SumAmounts(filtered)]>>)

FilterCategory(category, exps) ==
    Filtered(SelectSeq(exps, LAMBDA e : e.value.category = category))

\* Lines 203-209: int(choice) and the range check.
FilterNumber(choice_num, sorted_cats, exps) ==
    IF ~choice_num.ok THEN Display("ValueError", <<>>)
    ELSE IF ~(1 <= choice_num.v /\ choice_num.v <= Len(sorted_cats))
    THEN Display("invalid_number", <<>>)
    ELSE FilterCategory(sorted_cats[choice_num.v], exps)

FilterChoice(choice, exps) ==
    IF isdigit(choice)
    THEN FilterNumber(int(choice),
                      SortedStrings({exps[i].value.category : i \in 1..Len(exps)}), exps)
    ELSE FilterCategory(title(choice), exps)

filter_expenses_by_category(inputs, exps) ==
    IF exps = <<>> THEN Display("empty", <<>>)
    ELSE IF Len(inputs) < 1 THEN Display("EOFError", <<>>)
    ELSE FilterChoice(strip(inputs[1]), exps)

\* total / n for the displayed averages, kept as an exact fraction of
\* hundredths in lowest terms (NaN and the infinities divide to themselves).
RECURSIVE Gcd(_, _)
Gcd(a, b) == IF b = 0 THEN a ELSE Gcd(b, a % b)

FloatDivInt(a, n) ==
    IF a.k # "fin" THEN [k |-> a.k, num |-> a.n, den |-> 1]
    ELSE [k |-> "fin", num |-> a.n \div Gcd(a.n, n), den |-> n \div Gcd(a.n, n)]

\* Lines 256-267: the breakdown sorted by category, then the totals.
Breakdown(category_totals, names, total, count) ==
    [i \in 1..Len(names) |->
        [category |-> names[i], amount |-> DictGet(category_totals, names[i])]]
    \o <<[total |-> total, count |-> count, average |-> FloatDivInt(total, count)]>>

calculate_total_expenses(exps) ==
    IF exps = <<>> THEN Display("empty", <<>>)
    ELSE Display("totalled",
                 Breakdown(CategoryTotals(exps), SortedStrings(Keys(CategoryTotals(exps))),
                           SumAmounts(exps), Len(exps)))

----------------------------------------------------------------------------
(* generate_expense_summary: the period of a date and the grouping.         *)

\* Days before January 1st of year y, counted from 0001-01-01.
DaysBeforeYear(y) == (y - 1) * 365 + (y - 1) \div 4 - (y - 1) \div 100 + (y - 1) \div 400

RECURSIVE DaysBeforeMonth(_, _)
DaysBeforeMonth(y, m) ==
    IF m = 1 THEN 0 ELSE DaysBeforeMonth(y, m - 1) + DaysInMonth(y, m - 1)

\* date.toordinal()
ToOrdinal(y, m, d) == DaysBeforeYear(y) + DaysBeforeMonth(y, m) + d

\* date.weekday(): Monday is 0.
Weekday(y, m, d) == (ToOrdinal(y, m, d) + 6) % 7

\* The month holding day `yday` of year y.
MonthOfYearDay(y, yday) ==
    CHOOSE c \in 1..12 :
        DaysBeforeMonth(y, c) < yday /\ yday <= DaysBeforeMonth(y, c) + DaysInMonth(y, c)

DateOfYearDay(y, yday, m) ==
    [y |-> y, m |-> m, d |-> yday - DaysBeforeMonth(y, m), yday |-> yday]

\* The year holding ordinal n, for the dates date - timedelta(days <= 6)
\* reaches from a date of year `near`.
YearOfOrdinal(n, near) ==
    CHOOSE c \in (near - 1)..near : DaysBeforeYear(c) < n /\ n <= DaysBeforeYear(c + 1)

YearDay(n, y) == DateOfYearDay(y, n - DaysBeforeYear(y), MonthOfYearDay(y, n - DaysBeforeYear(y)))

\* date.fromordinal(n)
FromOrdinal(n, near) == YearDay(n, YearOfOrdinal(n, near))

\* Lines 342-344.  '%U' is the week of the year with Sunday as its first
\* day: for the Monday week_start it is (day-of-year - 1 + 6) div 7.
WeekPeriod(week_start) ==
    [key |-> Pad(week_start.y, 4) \o <<"-", "W">> \o Pad((week_start.yday + 5) \div 7, 2),
     label |-> <<"week", week_start.y, (week_start.yday + 5) \div 7,
                 week_start.m, week_start.d>>]

\* The key and label of the period a date falls in (lines 341-350).
PeriodOf(date, choice) ==
    IF choice = <<"1">>
    THEN WeekPeriod(FromOrdinal(ToOrdinal(date.y, date.m, date.d)
                                    - Weekday(date.y, date.m, date.d), date.y))
    ELSE IF choice = <<"2">>
    THEN [key |-> Pad(date.y, 4) \o <<"-">> \o Pad(date.m, 2),
          label |-> <<"month", date.y, date.m>>]
    ELSE [key |-> Pad(date.y, 4), label |-> <<"year", date.y>>]

\* Lines 352-355 on the summary `old` of the period.
Summed(old, label, e) ==
    [label |-> label,
     total |-> FloatAdd(old.total, e.amount),
     count |-> old.count + 1,
     categories |-> Accumulate(old.categories, e.category, e.amount)]

\* The defaultdict's value for a period not seen before.
NewSummary == [label |-> <<>>, total |-> Fin(0), count |-> 0, categories |-> <<>>]

Grouped(acc, p, e) ==
    DictSet(acc, p.key, Summed(DictGetOr(acc, p.key, NewSummary), p.label, e))

\* summaries: keyed by period, filled in the ledger's order.
RECURSIVE Summaries(_, _)
Summaries(items, choice) ==
    IF items = <<>> THEN <<>>
    ELSE Grouped(Summaries(SubSeq(items, 1, Len(items) - 1), choice),
                 PeriodOf(strptime(items[Len(items)].value.date), choice),
                 items[Len(items)].value)

SummaryRow(key, summary) ==
    [key |-> key, label |-> summary.label, total |-> summary.total,
     count |-> summary.count,
     average |-> FloatDivInt(summary.total, summary.count),
     categories |-> summary.categories]

\* Lines 359-365: the periods in sorted(keys, reverse=True) order, each
\* with its total, count and average.  (The "Top categories" lines are not
\* modelled beyond the per-category sums they are computed from.)
SummaryRows(summaries, order) ==
    [i \in 1..Len(order) |-> SummaryRow(order[i], DictGet(summaries, order[i]))]

\* A summary printed without reverse=True.
Summarised_OldestFirst(summaries) ==
    Display("summarised", SummaryRows(summaries, SortedStrings(Keys(summaries))))

Summarised(summaries) ==
    Display("summarised",
            SummaryRows(summaries, ReverseSeq(SortedStrings(Keys(summaries)))))

SummaryChoice(choice, exps) ==
    IF choice \notin {<<"1">>, <<"2">>, <<"3">>} THEN Display("invalid_choice", <<>>)
    ELSE IF \E i \in 1..Len(exps) : ~strptime(exps[i].value.date).ok
    THEN Display("ValueError", <<>>)
    ELSE Summarised(Summaries(exps, choice))

generate_expense_summary(inputs, exps) ==
    IF exps = <<>> THEN Display("empty", <<>>)
    ELSE IF Len(inputs) < 1 THEN Display("EOFError", <<>>)
    ELSE SummaryChoice(strip(inputs[1]), exps)

\* date_totals: a defaultdict(float) keyed by the date text.
RECURSIVE DateTotals(_)
DateTotals(items) ==
    IF items = <<>> THEN <<>>
    ELSE Accumulate(DateTotals(SubSeq(items, 1, Len(items) - 1)),
                    items[Len(items)].value.date, items[Len(items)].value.amount)

\* sorted(date_totals.items()): by date text, ascending.
SortedItems(totals, keys) ==
    [i \in 1..Len(keys) |-> [key |-> keys[i], value |-> DictGet(totals, keys[i])]]

TimeSeries(date_totals) == SortedItems(date_totals, SortedStrings(Keys(date_totals)))

\* Lines 395-457: the series handed to matplotlib; `plot` is whether the
\* plotting calls return or raise (any exception is caught).
ChartChoice(choice, plot, exps) ==
    IF choice \notin {<<"1">>, <<"2">>, <<"3">>} THEN Display("invalid_choice", <<>>)
    ELSE IF plot = "raises" THEN Display("render_error", <<>>)
    ELSE IF choice = <<"2">> /\ \E i \in 1..Len(exps) : ~strptime(exps[i].value.date).ok
    THEN Display("render_error", <<>>)
    ELSE IF choice = <<"2">> THEN Display("displayed", TimeSeries(DateTotals(exps)))
    ELSE Display("displayed", CategoryTotals(exps))

visualize_expenses(inputs, plot, exps) ==
    IF exps = <<>> THEN Display("empty", <<>>)
    ELSE IF Len(inputs) < 1 THEN Display("EOFError", <<>>)
    ELSE ChartChoice(strip(inputs[1]), plot, exps)

----------------------------------------------------------------------------
(* Bounds and the lines typed at the prompts.                               *)

\* Records added over a whole behaviour of Spec.
MaxAdds == 2

\* Records added over a whole behaviour of SpecSummary.
MaxSummaryAdds == 3

Food == <<"f", "o", "o", "d">>
Jan20 == <<"2", "0", "2", "4", "-", "0", "1", "-", "2", "0">>
Jan5Short == <<"2", "0", "2", "4", "-", "1", "-", "5">>
Jan05 == <<"2", "0", "2", "4", "-", "0", "1", "-", "0", "5">>
Feb01 == <<"2", "0", "2", "4", "-", "0", "2", "-", "0", "1">>
Feb30 == <<"2", "0", "2", "4", "-", "0", "2", "-", "3", "0">>

\* What datetime.now().strftime('%Y-%m-%d') returns.
Todays == {Jan20}

CategoryInputs == {Food, <<" ">>}
AmountInputs == {<<"1", "0">>, <<"0">>, <<"x">>, <<"n", "a", "n">>}
DateInputs == {Jan20, Jan5Short, <<>>, Feb30}
DescriptionInputs == {<<"a", "\"", "b">>}

IdInputs == {<<"1">>, <<"1", "0">>, <<"x">>}
ConfirmInputs == {<<"y">>, <<"Y", "E", "S", " ">>, <<"n", "o">>}
FilterInputs == {<<"1">>, Food, <<"x">>, <<SuperscriptTwo>>}
SummaryInputs == {<<"1">>, <<"2">>, <<"3">>, <<"4">>}
ChartInputs == {<<"1">>, <<"2">>, <<"4">>}
InvalidMenuInputs == {<<"9">>}

\* The lines typed in SpecSummary, which enters the ledger of dated amounts
\* {2024-01-05: 10, 2024-01-20: 20, 2024-02-01: 5} among others.
SummaryEntries == {<<<<"1", "0">>, Jan05>>, <<<<"2", "0">>, Jan20>>, <<<<"5">>, Feb01>>}

\* A file an earlier run of the program left behind.
EarlierFile ==
    json_dump(<<[key |-> 9,
                 value |-> [category |-> title(Food), amount |-> Fin(1000),
                            date |-> Jan20, description |-> <<>>]]>>, 10)

\* An object whose "expenses" has a key that is not an integer.
BadKeyFile ==
    FileOf("object",
           <<[key |-> <<"x">>,
              value |-> [category |-> JsonString(title(Food)), amount |-> FloatRepr(Fin(1000)),
                         date |-> JsonString(Jan20), description |-> JsonString(<<>>)]]>>,
           str(2))

InitialFiles == {Absent, Unreadable, NonObject, BadKeyFile, EarlierFile}

\* The scripts a handler runs to completion on: a prefix it does not ask
\* past, or a prefix it asks past extended by a line of the next prompt's
\* pool.  Asks(s) is whether the handler, given s, calls input() once more.
RECURSIVE Scripts(_, _, _)
Scripts(Asks(_), prefixes, pools) ==
    {s \in prefixes : ~Asks(s)}
    \cup (IF pools = <<>> THEN {}
          ELSE Scripts(Asks,
                       {Append(s, x) : s \in {t \in prefixes : Asks(t)}, x \in Head(pools)},
                       Tail(pools)))

----------------------------------------------------------------------------
(* The process: main() loads, then loops on the menu until choice 8.        *)

Crashes == {"AttributeError", "ValueError", "EOFError"}

Init ==
    /\ expenses = <<>>
    /\ expense_counter = 1
    /\ file \in InitialFiles
    /\ pc = "off"
    /\ last = [op |-> "none", inputs |-> <<>>, outcome |-> "none", saved |-> "none"]
    /\ shown = <<>>
    /\ used = {}
    /\ adds = 0

\* The state main() reaches with load_expenses() having returned l.
Started(l) ==
    /\ expenses' = l.expenses
    /\ expense_counter' = l.expense_counter
    /\ pc' = IF l.outcome \in Crashes THEN "crashed" ELSE "menu"
    /\ last' = [op |-> "load", inputs |-> <<>>, outcome |-> l.outcome, saved |-> "none"]
    /\ used' = Keys(l.expenses)
    /\ shown' = <<>>
    /\ UNCHANGED <<file, adds>>

\* main() up to the first menu, in a new process: the module's globals
\* ({} and 1) and load_expenses().
Start ==
    /\ pc \in {"off", "halted", "crashed"}
    /\ Started(load_expenses(file, <<>>, 1))

\* A handler that may change the ledger ran on `inputs` with result r.
Commit(op, inputs, r) ==
    /\ expenses' = r.expenses
    /\ expense_counter' = r.expense_counter
    /\ file' = r.file
    /\ pc' = IF r.outcome \in Crashes THEN "crashed" ELSE "menu"
    /\ last' = [op |-> op, inputs |-> inputs, outcome |-> r.outcome, saved |-> r.saved]
    /\ shown' = r.shown
    /\ used' = used \cup Keys(r.expenses)

\* A handler that only reads the ledger ran on `inputs` with result r.
Show(op, inputs, r) ==
    /\ pc' = IF r.outcome \in Crashes THEN "crashed" ELSE "menu"
    /\ last' = [op |-> op, inputs |-> inputs, outcome |-> r.outcome, saved |-> "none"]
    /\ shown' = r.shown
    /\ UNCHANGED <<expenses, expense_counter, file, used, adds>>

Added(inputs, r, cap) ==
    /\ r.outcome = "stored" => adds < cap
    /\ Commit("add", inputs, r)
    /\ adds' = IF r.outcome = "stored" THEN adds + 1 ELSE adds

\* Choice '1'.
MenuAdd(Cats, Amts, Dates, Descs, cap) ==
    /\ pc = "menu"
    /\ \E today \in Todays :
         \E inputs \in Scripts(LAMBDA s : add_expense(s, today, "ok", expenses,
                                                      expense_counter, file).outcome
                                              = "EOFError",
                               {<<>>}, <<Cats, Amts, Dates, Descs>>) :
            \E io \in IF Len(inputs) = 4 THEN IoOutcomes ELSE {"ok"} :
               Added(inputs, add_expense(inputs, today, io, expenses, expense_counter, file),
                     cap)

\* Choice '2'.
MenuView ==
    /\ pc = "menu"
    /\ Show("view", <<>>, Display(IF expenses = <<>> THEN "empty" ELSE "listed",
                                  view_all_expenses(expenses)))

\* Choice '3'.
MenuFilter(Choices) ==
    /\ pc = "menu"
    /\ \E inputs \in Scripts(LAMBDA s : filter_expenses_by_category(s, expenses).outcome
                                            = "EOFError",
                             {<<>>}, <<Choices>>) :
         Show("filter", inputs, filter_expenses_by_category(inputs, expenses))

\* Choice '4'.
MenuTotal ==
    /\ pc = "menu"
    /\ Show("total", <<>>, calculate_total_expenses(expenses))

Deleted(inputs, io, r) ==
    /\ r.outcome # "deleted" => io = "ok"
    /\ Commit("delete", inputs, r)
    /\ UNCHANGED adds

\* Choice '5'.
MenuDelete(Ids, Confirms) ==
    /\ pc = "menu"
    /\ \E inputs \in Scripts(LAMBDA s : delete_expense(s, "ok", expenses, expense_counter,
                                                       file).outcome = "EOFError",
                             {<<>>}, <<Ids, Confirms>>) :
         \E io \in IF Len(inputs) = 2 THEN IoOutcomes ELSE {"ok"} :
            Deleted(inputs, io, delete_expense(inputs, io, expenses, expense_counter, file))

\* Choice '6'.
MenuSummary(Choices) ==
    /\ pc = "menu"
    /\ \E inputs \in Scripts(LAMBDA s : generate_expense_summary(s, expenses).outcome
                                            = "EOFError",
                             {<<>>}, <<Choices>>) :
         Show("summary", inputs, generate_expense_summary(inputs, expenses))

Charted(inputs, plot, r) ==
    /\ r.outcome \in {"empty", "invalid_choice"} => plot = "returns"
    /\ Show("visualize", inputs, r)

\* Choice '7'.
MenuVisualize ==
    /\ pc = "menu"
    /\ \E plot \in {"returns", "raises"} :
         \E inputs \in Scripts(LAMBDA s : visualize_expenses(s, plot, expenses).outcome
                                              = "EOFError",
                               {<<>>}, <<ChartInputs>>) :
            Charted(inputs, plot, visualize_expenses(inputs, plot, expenses))

Exited(s) ==
    /\ file' = s.file
    /\ last' = [op |-> "exit", inputs |-> <<>>, outcome |-> "goodbye", saved |-> s.saved]
    /\ pc' = "halted"
    /\ shown' = <<>>
    /\ UNCHANGED <<expenses, expense_counter, used, adds>>

\* Choice '8': save_expenses() and break.
MenuExit ==
    /\ pc = "menu"
    /\ \E io \in IoOutcomes : Exited(save_expenses(expenses, expense_counter, file, io))

\* Any other choice: the error line, and the menu again.
MenuInvalid ==
    /\ pc = "menu"
    /\ \E choice \in InvalidMenuInputs :
         /\ strip(choice) \notin {<<DigitChar(n)>> : n \in 1..8}
         /\ last' = [op |-> "invalid", inputs |-> <<choice>>, outcome |-> "error", saved |-> "none"]
    /\ pc' = "menu"
    /\ shown' = <<>>
    /\ UNCHANGED <<expenses, expense_counter, file, used, adds>>

Next ==
    \/ Start
    \/ MenuAdd(CategoryInputs, AmountInputs, DateInputs, DescriptionInputs, MaxAdds)
    \/ MenuView
    \/ MenuFilter(FilterInputs)
    \/ MenuTotal
    \/ MenuDelete(IdInputs, ConfirmInputs)
    \/ MenuSummary(SummaryInputs)
    \/ MenuVisualize
    \/ MenuExit
    \/ MenuInvalid

Spec == Init /\ [][Next]_vars

\* The summaries of a ledger built from dated amounts, starting with no
\* file on disk.
InitSummary == Init /\ file = Absent

NextSummary ==
    \/ Start
    \/ \E entry \in SummaryEntries :
         MenuAdd({Food}, {entry[1]}, {entry[2]}, {<<>>}, MaxSummaryAdds)
    \/ MenuSummary(SummaryInputs)
    \/ MenuExit

SpecSummary == InitSummary /\ [][NextSummary]_vars

----------------------------------------------------------------------------
(* The claims.                                                              *)

Stored(l) == l.op = "add" /\ l.outcome = "stored"
Removed(l) == l.op = "delete" /\ l.outcome = "deleted"

\* C1: a successful add assigns the ID expense_counter held, which is
\* greater than every ID that held a record earlier in the session (loaded,
\* added or since deleted: `used`), adds exactly that record and leaves the
\* others as they were; within a session the counter never decreases.
C1_FreshIds ==
    [][pc = "menu" =>
        /\ expense_counter' >= expense_counter
        /\ Stored(last') =>
             /\ expense_counter \notin used
             /\ \A u \in used : u < expense_counter
             /\ Keys(expenses') = Keys(expenses) \cup {expense_counter}
             /\ Len(expenses') = Len(expenses) + 1
             /\ \A i \in 1..Len(expenses) : expenses'[i] = expenses[i]
             /\ expense_counter' > expense_counter]_vars

\* An add has just succeeded in a session in which an earlier ID was deleted.
C1_Witness ==
    /\ pc = "menu" /\ Stored(last)
    /\ \E u \in used : u \notin Keys(expenses)
    /\ (expense_counter - 1) \in Keys(expenses)

\* C2: the process that starts after an exit whose save succeeded loads
\* exactly the ledger and the counter the exiting process held.
C2_RoundTrip ==
    [][(pc = "halted" /\ last.op = "exit" /\ last.saved = "ok" /\ last'.op = "load") =>
        /\ last'.outcome = "loaded"
        /\ expenses' = expenses
        /\ expense_counter' = expense_counter]_vars

\* A process has loaded a file a run in this behaviour wrote, holding
\* records (one of them with an escaped description) and a gap in the IDs.
C2_Witness ==
    /\ pc = "menu" /\ last.op = "load" /\ last.outcome = "loaded"
    /\ adds = MaxAdds
    /\ Len(expenses) >= 1
    /\ expense_counter > Len(expenses) + 1
    /\ \E i \in 1..Len(expenses) : expenses[i].value.description # <<>>

\* A file that is not a well-formed persisted ledger.
Corrupted(f) ==
    \/ f.kind \in {"unreadable", "unparsable", "array"}
    \/ f.kind = "object" /\ \E i \in 1..Len(f.expenses) : ~int(f.expenses[i].key).ok

\* C3: loading a corrupted file leaves the shell in MENU with an empty
\* ledger and counter 1.
C3_CorruptedLoadsEmpty ==
    (last.op = "load" /\ Corrupted(file)) =>
        (pc = "menu" /\ expenses = <<>> /\ expense_counter = 1)

\* C4: back in MENU after an add that stored a record or a confirmed
\* delete, a save was made, and if it succeeded the file holds exactly the
\* ledger and the counter in memory (and loads back to them).
C4_SavedOnMutation ==
    (pc = "menu" /\ (Stored(last) \/ Removed(last))) =>
        /\ last.saved \in {"ok", "failed"}
        /\ last.saved = "ok" =>
             /\ file = json_dump(expenses, expense_counter)
             /\ load_expenses(file, <<>>, 1)
                    = [expenses |-> expenses, expense_counter |-> expense_counter,
                       outcome |-> "loaded"]

\* A confirmed delete has just been saved and records remain.
C4_Witness ==
    /\ pc = "menu" /\ Removed(last) /\ last.saved = "ok"
    /\ expenses # <<>>
    /\ expense_counter > 2

\* The frame of a delete request that removes nothing.
DeleteLeavesAll ==
    /\ expenses' = expenses
    /\ expense_counter' = expense_counter
    /\ file' = file
    /\ last'.saved = "none"
    /\ pc' = "menu"

\* The effect of a delete request that removes the record with ID k.
DeleteRemovesOnly(k) ==
    /\ k \in Keys(expenses)
    /\ Keys(expenses') = Keys(expenses) \ {k}
    /\ \A j \in Keys(expenses') : DictGet(expenses', j) = DictGet(expenses, j)
    /\ expense_counter' = expense_counter
    /\ pc' = "menu"

\* The ID typed names a record of the ledger.
TypedIdExists(inputs) ==
    /\ Len(inputs) >= 1
    /\ int(inputs[1]).ok
    /\ int(inputs[1]).v \in Keys(expenses)

\* C5 as stated: a record is removed only when its ID exists and the
\* confirmation typed is 'y' or 'yes'; every other request changes nothing.
C5_RemovesOnlyOnYes ==
    [][(pc = "menu" /\ last'.op = "delete") =>
        IF /\ TypedIdExists(last'.inputs)
           /\ Len(last'.inputs) = 2
           /\ last'.inputs[2] \in {<<"y">>, <<"y", "e", "s">>}
        THEN DeleteRemovesOnly(int(last'.inputs[1]).v)
        ELSE DeleteLeavesAll]_vars

\* C5 amended: the confirmation counts as 'y' or 'yes' after surrounding
\* whitespace is dropped and letters are lower-cased.
C5_RemovesOnlyOnYesAnyCase ==
    [][(pc = "menu" /\ last'.op = "delete") =>
        IF /\ TypedIdExists(last'.inputs)
           /\ Len(last'.inputs) = 2
           /\ Lower(strip(last'.inputs[2])) \in {<<"y">>, <<"y", "e", "s">>}
        THEN DeleteRemovesOnly(int(last'.inputs[1]).v)
        ELSE DeleteLeavesAll]_vars

\* A record was removed on the confirmation "YES ", others are left; or a
\* request was cancelled.
C5_Witness ==
    /\ pc = "menu" /\ Removed(last)
    /\ last.inputs[2] = <<"Y", "E", "S", " ">>
    /\ expenses # <<>>

\* C6: every record of the ledger has an amount > 0.
C6_AmountsPositive ==
    \A i \in 1..Len(expenses) : FloatPositive(expenses[i].value.amount)

\* The lines typed for an add fail validation: an empty category, an
\* amount that is unparsable or not positive, or a date that is typed and
\* is not accepted by validate_date.
FailsValidation(inputs) ==
    \/ strip(inputs[1]) = <<>>
    \/ Len(inputs) >= 2 /\ ~float(inputs[2]).ok
    \/ Len(inputs) >= 2 /\ float(inputs[2]).ok /\ FloatLeqZero(float(inputs[2]).v)
    \/ Len(inputs) >= 3 /\ strip(inputs[3]) # <<>> /\ ~strptime(strip(inputs[3])).ok

ExampleLedger ==
    /\ Len(expenses) = 3
    /\ {<<expenses[i].value.date, expenses[i].value.amount>> : i \in 1..3}
           = {<<Jan05, Fin(1000)>>, <<Jan20, Fin(2000)>>, <<Feb01, Fin(500)>>}

MonthlySummaryOfExample ==
    ExampleLedger /\ last.op = "summary" /\ last.inputs = <<<<"2">>>>

IsJanuaryRow(row) ==
    /\ row.label = <<"month", 2024, 1>>
    /\ row.total = Fin(3000) /\ row.count = 2
    /\ row.average = [k |-> "fin", num |-> 1500, den |-> 1]

IsFebruaryRow(row) ==
    /\ row.label = <<"month", 2024, 2>>
    /\ row.total = Fin(500) /\ row.count = 1
    /\ row.average = [k |-> "fin", num |-> 500, den |-> 1]

\* C8 as stated: the monthly summary of the example ledger is January
\* (total 30, count 2, average 15) and then February (5, 1, 5).
C8_JanuaryThenFebruary ==
    MonthlySummaryOfExample =>
        (Len(shown) = 2 /\ IsJanuaryRow(shown[1]) /\ IsFebruaryRow(shown[2]))

\* C8 amended: the same two periods, most recent first: February and then
\* January.
C8_FebruaryThenJanuary ==
    MonthlySummaryOfExample =>
        (Len(shown) = 2 /\ IsFebruaryRow(shown[1]) /\ IsJanuaryRow(shown[2]))

\* The monthly summary of the example ledger has been printed.
C8_Witness == MonthlySummaryOfExample /\ pc = "menu" /\ last.outcome = "summarised"

\* The calendar day a stored date denotes, as a number that orders days.
DayNumber(date) == ToOrdinal(strptime(date).y, strptime(date).m, strptime(date).d)

\* C9: the listing shows every record once, later dates first, and records
\* of the same date by ascending ID.
C9_ListedByDateThenId ==
    (last.op = "view" /\ pc = "menu") =>
        /\ Len(shown) = Len(expenses)
        /\ {shown[i] : i \in 1..Len(shown)} = {expenses[i] : i \in 1..Len(expenses)}
        /\ \A i, j \in 1..Len(shown) :
             i < j =>
               \/ DayNumber(shown[i].value.date) > DayNumber(shown[j].value.date)
               \/ /\ DayNumber(shown[i].value.date) = DayNumber(shown[j].value.date)
                  /\ shown[i].key < shown[j].key

\* C10: from MENU every choice but '8' comes back to MENU, an invalid
\* choice changes nothing, and the process halts only on '8', after a save.
C10_MenuLoop ==
    [][pc = "menu" =>
        /\ last'.op # "exit" => pc' = "menu"
        /\ last'.op = "invalid" =>
             (expenses' = expenses /\ expense_counter' = expense_counter /\ file' = file)
        /\ pc' # "menu" => (pc' = "halted" /\ last'.op = "exit" /\ last'.saved # "none")]_vars

====
